---- MODULE Spec2Model ----
(***************************************************************************)
(* Model of ClaudeOptimizer (src/claude_optimizer.py): the retrying        *)
(* request sender send_message, the usage counters it maintains, the       *)
(* thread-pool fan-out/fan-in batch_process and analyze_performance; of    *)
(* WorkflowAutomation.execute_workflow, which runs registered step lists   *)
(* on top of them; and of RevenueGenerator.estimate_revenue.               *)
(*                                                                         *)
(* One client thread issues operations one after the other (a direct       *)
(* send_message, a batch_process, an analyze_performance).  batch_process  *)
(* runs send_message on worker threads; every statement of send_message    *)
(* that touches usage_stats is split into its load and its store, because  *)
(* `d[k] += v` is not atomic between threads.                               *)
(*                                                                         *)
(* Sequence positions are 1-based here where Python's are 0-based; the     *)
(* zero-based attempt number of the source is kept as it is.  total_cost   *)
(* is counted in units of 0.00001 dollars (the per-token rate of line 110) *)
(* so that it stays an integer; prices and revenues are counted in tenths  *)
(* of a dollar.                                                            *)
(***************************************************************************)
EXTENDS Integers, Sequences, FiniteSets, TLC

\* ---------------------------------------------------------------- bounds
MaxRetryAttempts == 3
MaxBatch == 2
MaxWorkers == 2
MaxTokens == 2
MaxSends == 3
MaxTokensArg == 2
MaxQuantity == 10
MaxDepth == 3

\* ------------------------------------------------------------- constants
\* tokens * 0.00001, in units of 0.00001 dollars
CostPerToken == 1
\* ClaudeConfig.max_tokens
ConfigMaxTokens == 4096

VARIABLES
    retry_attempts,   \* config.retry_attempts
    usage_stats,      \* self.usage_stats
    calls,            \* one send_message activation per id (0: caller's own)
    main_pc,          \* where the client thread is
    prompts,          \* batch_process: the prompts argument
    max_workers,      \* batch_process: the max_workers argument
    submitted,        \* batch_process: how many futures were submitted
    results,          \* batch_process: the local list of (idx, result)
    yielded,          \* batch_process: the idx in the order as_completed gave them
    ret,              \* outcome of the client's last finished operation
    stats_at_call,    \* usage_stats as it was when the operation began
    sends,            \* send_message calls asked for so far
    pricing,          \* RevenueGenerator.pricing
    revenue,          \* what the last estimate_revenue returned
    workflows,        \* WorkflowAutomation.workflows
    wf_stack,         \* the execute_workflow activations, outermost first
    wf_call,          \* the arguments of the outermost execute_workflow
    wf_ret,           \* how the outermost execute_workflow ended
    wf_runs           \* execute_workflow calls that found their workflow

\* the state outside ClaudeOptimizer's sender, dispatcher and tracker
ext == <<pricing, revenue, workflows, wf_stack, wf_call, wf_ret, wf_runs>>

vars == <<retry_attempts, usage_stats, calls, main_pc, prompts, max_workers,
          submitted, results, yielded, ret, stats_at_call, sends, ext>>

\* ------------------------------------------------------------ data types
PromptSet == {"p", "q"}
CallIds == 0..MaxBatch

\* Python's None, as a value of the same shape as a response
None ==
    [is_none |-> TRUE, content |-> "", has_usage |-> FALSE,
     has_total |-> FALSE, total_tokens |-> 0]

\* The decoded bodies a 200 reply to prompt p can carry: no usage record,
\* a usage record without total_tokens, a usage record with total_tokens.
Responses(p) ==
    {[is_none |-> FALSE, content |-> p, has_usage |-> FALSE,
      has_total |-> FALSE, total_tokens |-> 0],
     [is_none |-> FALSE, content |-> p, has_usage |-> TRUE,
      has_total |-> FALSE, total_tokens |-> 0]}
    \cup {[is_none |-> FALSE, content |-> p, has_usage |-> TRUE,
           has_total |-> TRUE, total_tokens |-> t] : t \in 1..MaxTokens}

Pow2(n) == 2 ^ n

\* What a send_message activation did last: nothing yet, an HTTP attempt
\* (zero-based number n, outcome out) or a time.sleep of secs seconds.
NoEvent == [ev |-> "none", n |-> 0, out |-> "none", secs |-> 0]
Attempt(a, o) == [ev |-> "attempt", n |-> a, out |-> o, secs |-> 0]
Slept(a, s) == [ev |-> "sleep", n |-> a, out |-> "none", secs |-> s]

\* An optional argument: <<>> is None, <<v>> the value v.
NoArg == <<>>

\* Python's `x or default` for an optional number: None and 0 are falsy
OrDefault(x, default) == IF x # NoArg /\ x[1] # 0 THEN x[1] ELSE default

\* Python's `if x:` for an optional string: None and "" are falsy
Truthy(x) == x # NoArg /\ x[1] # ""

NoData ==
    [model |-> "", messages |-> <<>>, max_tokens |-> 0, temperature |-> "",
     top_p |-> "", has_system |-> FALSE, system |-> ""]

\* send_message: the request body `data`
Payload(prompt, system, max_tokens) ==
    [model |-> "claude-opus-4-1-20250805",
     messages |-> <<[role |-> "user", content |-> prompt]>>,
     max_tokens |-> OrDefault(max_tokens, ConfigMaxTokens),
     temperature |-> "0.7",
     top_p |-> "0.95",
     has_system |-> Truthy(system),
     system |-> IF Truthy(system) THEN system[1] ELSE ""]

\* A send_message activation: pc is its position, attempt the loop variable,
\* tmp the value read by the += in progress, result the decoded response,
\* posts the number of session.post calls made, last the last event;
\* system and max_tokens are the optional arguments, data the request body.
NoCall ==
    [pc |-> "unused", prompt |-> "", attempt |-> 0, tmp |-> 0,
     result |-> None, posts |-> 0, last |-> NoEvent,
     system |-> NoArg, max_tokens |-> NoArg, data |-> NoData]

NewCallWith(p, system, max_tokens, at) ==
    [pc |-> at, prompt |-> p, attempt |-> 0, tmp |-> 0,
     result |-> None, posts |-> 0, last |-> NoEvent,
     system |-> system, max_tokens |-> max_tokens,
     data |-> Payload(p, system, max_tokens)]

\* send_message(prompt) and send_message(prompt, None): both defaults
NewCall(p, at) == NewCallWith(p, NoArg, NoArg, at)

NoRet == [op |-> "none", ok |-> TRUE, value |-> <<>>]

\* RevenueGenerator.__init__: self.pricing, in tenths of a dollar
PricingTable ==
    [blog_post |-> 500, code_generation |-> 1000, data_analysis |-> 1500,
     marketing_campaign |-> 2000]

NoRevenue ==
    [custom_pricing |-> NoArg, service_type |-> "", quantity |-> 0,
     price_per_unit |-> 0, total_revenue |-> 0, estimated_cost |-> 0,
     estimated_profit |-> 0, profit_margin |-> 0]

\* WorkflowAutomation.__init__: self.workflows = {}
NoWorkflows == [n \in {} |-> <<>>]

\* no execute_workflow call made yet / not ended yet; depth is the number of
\* activations below the one that raised, value the list returned
NoWfCall == [name |-> "", context |-> <<>>]
NoWfRet == [status |-> "none", depth |-> 0, value |-> <<>>]

\* RevenueGenerator and WorkflowAutomation as constructed, nothing called
InitExt ==
    /\ pricing = PricingTable
    /\ revenue = NoRevenue
    /\ workflows = NoWorkflows
    /\ wf_stack = <<>>
    /\ wf_call = NoWfCall
    /\ wf_ret = NoWfRet
    /\ wf_runs = 0

\* ClaudeOptimizer.__init__
InitOptimizer ==
    /\ retry_attempts \in 1..MaxRetryAttempts
    /\ usage_stats = [total_requests |-> 0, successful_requests |-> 0,
                      failed_requests |-> 0, total_tokens |-> 0,
                      total_cost |-> 0]
    /\ calls = [c \in CallIds |-> NoCall]
    /\ main_pc = "idle"
    /\ prompts = <<>>
    /\ max_workers = 1
    /\ submitted = 0
    /\ results = <<>>
    /\ yielded = <<>>
    /\ ret = NoRet
    /\ stats_at_call = usage_stats
    /\ sends = 0

Init == InitOptimizer /\ InitExt

\* ---------------------------------------------------------- send_message
\* mutant of Tokens: a missing total_tokens counts as 1
TokensDefaultOne(response) ==
    IF response.has_total THEN response.total_tokens ELSE 1

\* tokens = response["usage"].get("total_tokens", 0)
Tokens(response) == IF response.has_total THEN response.total_tokens ELSE 0

\* The client calls send_message(prompt, system, max_tokens) on its own
\* thread.
SendMessageCall(p, system, max_tokens) ==
    /\ main_pc = "idle"
    /\ sends < MaxSends
    /\ sends' = sends + 1
    /\ main_pc' = "send"
    /\ calls' = [c \in CallIds |->
                    IF c = 0 THEN NewCallWith(p, system, max_tokens, "loop")
                    ELSE NoCall]
    /\ stats_at_call' = usage_stats
    /\ ret' = NoRet
    /\ prompts' = <<>>
    /\ submitted' = 0
    /\ results' = <<>>
    /\ yielded' = <<>>
    /\ UNCHANGED ext
    /\ UNCHANGED <<retry_attempts, usage_stats, max_workers>>

\* The client calls send_message(prompt).
CallSendMessage(p) == SendMessageCall(p, NoArg, NoArg)

\* mutant of LoopRange: one attempt too many
LoopRangeOneMore(n) == 0..n

\* for attempt in range(retry_attempts): the loop goes on while attempts remain
LoopRange(n) == 0..(n - 1)

\* session.post(...) answers 200 with a decodable body
PostOk(c, response) ==
    /\ calls[c].pc = "loop"
    /\ calls[c].attempt \in LoopRange(retry_attempts)
    /\ calls' = [calls EXCEPT ![c].pc = "load_total_requests",
                              ![c].result = response,
                              ![c].posts = @ + 1,
                              ![c].last = Attempt(calls[c].attempt, "ok")]
    /\ UNCHANGED ext
    /\ UNCHANGED <<retry_attempts, usage_stats, main_pc, prompts, max_workers,
                   submitted, results, yielded, ret, stats_at_call, sends>>

\* session.post(...) answers with a status other than 200: warning, next attempt
PostStatus(c) ==
    /\ calls[c].pc = "loop"
    /\ calls[c].attempt \in LoopRange(retry_attempts)
    /\ calls' = [calls EXCEPT ![c].attempt = @ + 1,
                              ![c].posts = @ + 1,
                              ![c].last = Attempt(calls[c].attempt, "status")]
    /\ UNCHANGED ext
    /\ UNCHANGED <<retry_attempts, usage_stats, main_pc, prompts, max_workers,
                   submitted, results, yielded, ret, stats_at_call, sends>>

\* session.post(...) raises RequestException: caught by the except clause
PostRequestException(c) ==
    /\ calls[c].pc = "loop"
    /\ calls[c].attempt \in LoopRange(retry_attempts)
    /\ calls' = [calls EXCEPT ![c].pc = "sleep",
                              ![c].posts = @ + 1,
                              ![c].last = Attempt(calls[c].attempt, "neterr")]
    /\ UNCHANGED ext
    /\ UNCHANGED <<retry_attempts, usage_stats, main_pc, prompts, max_workers,
                   submitted, results, yielded, ret, stats_at_call, sends>>

\* mutant of Backoff: the delay grows linearly
BackoffLinear(a) == 2 * a

\* time.sleep(2 ** attempt): the seconds slept after zero-based attempt a
Backoff(a) == Pow2(a)

\* except clause: logger.error, time.sleep(2 ** attempt), then the next attempt
Sleep(c) ==
    /\ calls[c].pc = "sleep"
    /\ calls' = [calls EXCEPT ![c].pc = "loop",
                              ![c].attempt = @ + 1,
                              ![c].last = Slept(calls[c].attempt,
                                                 Backoff(calls[c].attempt))]
    /\ UNCHANGED ext
    /\ UNCHANGED <<retry_attempts, usage_stats, main_pc, prompts, max_workers,
                   submitted, results, yielded, ret, stats_at_call, sends>>

\* ------------------------------------------- the += on a usage_stats entry
\* `self.usage_stats[k] += v` reads the entry, adds, and writes it back;
\* another thread can run between the read and the write.
Load(c, at, k, next) ==
    /\ calls[c].pc = at
    /\ calls' = [calls EXCEPT ![c].pc = next, ![c].tmp = usage_stats[k]]
    /\ UNCHANGED ext
    /\ UNCHANGED <<retry_attempts, usage_stats, main_pc, prompts, max_workers,
                   submitted, results, yielded, ret, stats_at_call, sends>>

Store(c, at, k, v, next) ==
    /\ calls[c].pc = at
    /\ usage_stats' = [usage_stats EXCEPT ![k] = calls[c].tmp + v]
    /\ calls' = [calls EXCEPT ![c].pc = next, ![c].tmp = 0]
    /\ UNCHANGED ext
    /\ UNCHANGED <<retry_attempts, main_pc, prompts, max_workers,
                   submitted, results, yielded, ret, stats_at_call, sends>>

\* the loop is over without a return: self.usage_stats["failed_requests"] += 1
LoadFailedRequests(c) ==
    /\ calls[c].attempt \notin LoopRange(retry_attempts)
    /\ Load(c, "loop", "failed_requests", "store_failed_requests")

\* mutant of StoreFailedRequests: one failure is counted per attempt made
StoreFailedPerAttempt(c) ==
    Store(c, "store_failed_requests", "failed_requests", calls[c].posts,
          "raised")

\* mutant of StoreFailedRequests: the failed call is counted as a request too
StoreFailedAsRequest(c) ==
    /\ calls[c].pc = "store_failed_requests"
    /\ usage_stats' = [usage_stats EXCEPT
                           !.failed_requests = calls[c].tmp + 1,
                           !.total_requests = @ + 1]
    /\ calls' = [calls EXCEPT ![c].pc = "raised", ![c].tmp = 0]
    /\ UNCHANGED ext
    /\ UNCHANGED <<retry_attempts, main_pc, prompts, max_workers,
                   submitted, results, yielded, ret, stats_at_call, sends>>

\* ... and raise Exception("Failed to get response from Claude API")
StoreFailedRequests(c) ==
    Store(c, "store_failed_requests", "failed_requests", 1, "raised")

\* _update_usage_stats: self.usage_stats["total_requests"] += 1
LoadTotalRequests(c) ==
    Load(c, "load_total_requests", "total_requests", "store_total_requests")

\* mutant of StoreTotalRequests: every HTTP attempt is counted as a request
StoreTotalPerAttempt(c) ==
    Store(c, "store_total_requests", "total_requests", calls[c].posts,
          "load_successful_requests")

StoreTotalRequests(c) ==
    Store(c, "store_total_requests", "total_requests", 1,
          "load_successful_requests")

\* what follows the update of successful_requests: if "usage" in response
AfterSuccessful(response) ==
    IF response.has_usage THEN "load_total_tokens" ELSE "returned"

\* _update_usage_stats: self.usage_stats["successful_requests"] += 1
LoadSuccessfulRequests(c) ==
    Load(c, "load_successful_requests", "successful_requests",
         "store_successful_requests")

StoreSuccessfulRequests(c) ==
    Store(c, "store_successful_requests", "successful_requests", 1,
          AfterSuccessful(calls[c].result))

\* _update_usage_stats: self.usage_stats["total_tokens"] += tokens
LoadTotalTokens(c) ==
    Load(c, "load_total_tokens", "total_tokens", "store_total_tokens")

StoreTotalTokens(c) ==
    Store(c, "store_total_tokens", "total_tokens", Tokens(calls[c].result),
          "load_total_cost")

\* _update_usage_stats: self.usage_stats["total_cost"] += tokens * 0.00001
LoadTotalCost(c) ==
    Load(c, "load_total_cost", "total_cost", "store_total_cost")

\* ... and send_message returns result
StoreTotalCost(c) ==
    Store(c, "store_total_cost", "total_cost",
          Tokens(calls[c].result) * CostPerToken, "returned")

Finished(c) == calls[c].pc \in {"returned", "raised"}

\* send_message comes back to the client: the response, or the exception
SendMessageDone ==
    /\ main_pc = "send"
    /\ Finished(0)
    /\ main_pc' = "idle"
    /\ ret' = [op |-> "send", ok |-> calls[0].pc = "returned",
               value |-> <<calls[0].result>>]
    /\ UNCHANGED ext
    /\ UNCHANGED <<retry_attempts, usage_stats, calls, prompts, max_workers,
                   submitted, results, yielded, stats_at_call, sends>>

\* one step of the send_message activation c
SendStep(c) ==
    \/ \E response \in Responses(calls[c].prompt) : PostOk(c, response)
    \/ PostStatus(c)
    \/ PostRequestException(c)
    \/ Sleep(c)
    \/ LoadFailedRequests(c)
    \/ StoreFailedRequests(c)
    \/ LoadTotalRequests(c)
    \/ StoreTotalRequests(c)
    \/ LoadSuccessfulRequests(c)
    \/ StoreSuccessfulRequests(c)
    \/ LoadTotalTokens(c)
    \/ StoreTotalTokens(c)
    \/ LoadTotalCost(c)
    \/ StoreTotalCost(c)

\* --------------------------------------------------------- batch_process
\* The client calls batch_process(prompts, None, max_workers): results = []
CallBatchProcess(ps, mw) ==
    /\ main_pc = "idle"
    /\ sends + Len(ps) <= MaxSends
    /\ sends' = sends + Len(ps)
    /\ main_pc' = "submit"
    /\ prompts' = ps
    /\ max_workers' = mw
    /\ submitted' = 0
    /\ results' = <<>>
    /\ yielded' = <<>>
    /\ calls' = [c \in CallIds |-> NoCall]
    /\ stats_at_call' = usage_stats
    /\ ret' = NoRet
    /\ UNCHANGED ext
    /\ UNCHANGED <<retry_attempts, usage_stats>>

\* executor.submit(self.send_message, prompt, system) for the next prompt:
\* the work item joins the executor's queue
Submit ==
    /\ main_pc = "submit"
    /\ submitted < Len(prompts)
    /\ submitted' = submitted + 1
    /\ calls' = [calls EXCEPT ![submitted + 1] =
                     NewCall(prompts[submitted + 1], "queued")]
    /\ UNCHANGED ext
    /\ UNCHANGED <<retry_attempts, usage_stats, main_pc, prompts, max_workers,
                   results, yielded, ret, stats_at_call, sends>>

\* the dict of futures is complete: for future in as_completed(futures)
AsCompleted ==
    /\ main_pc = "submit"
    /\ submitted = Len(prompts)
    /\ main_pc' = "collect"
    /\ UNCHANGED ext
    /\ UNCHANGED <<retry_attempts, usage_stats, calls, prompts, max_workers,
                   submitted, results, yielded, ret, stats_at_call, sends>>

Queued == {c \in 1..MaxBatch : calls[c].pc = "queued"}
Running == {c \in 1..MaxBatch : calls[c].pc \notin {"unused", "queued", "returned", "raised"}}

\* mutant of WorkerStart: a thread is started for every queued work item
WorkerStartUnbounded(c) ==
    /\ c \in Queued
    /\ \A d \in Queued : c <= d
    /\ calls' = [calls EXCEPT ![c].pc = "loop"]
    /\ UNCHANGED ext
    /\ UNCHANGED <<retry_attempts, usage_stats, main_pc, prompts, max_workers,
                   submitted, results, yielded, ret, stats_at_call, sends>>

\* a worker thread of the pool takes the oldest queued work item; the pool
\* has at most max_workers threads
WorkerStart(c) ==
    /\ c \in Queued
    /\ \A d \in Queued : c <= d
    /\ Cardinality(Running) < max_workers
    /\ calls' = [calls EXCEPT ![c].pc = "loop"]
    /\ UNCHANGED ext
    /\ UNCHANGED <<retry_attempts, usage_stats, main_pc, prompts, max_workers,
                   submitted, results, yielded, ret, stats_at_call, sends>>

Collected == {results[k][1] : k \in 1..Len(results)}

\* mutant of FutureResult: the except clause's None is recorded for every task
FutureResultNone(c) == None

\* future.result(): the task's return value, None where the task raised
FutureResult(c) == IF calls[c].pc = "returned" THEN calls[c].result ELSE None

\* as_completed yields a finished future not yet yielded:
\* results.append((idx, result)) or, in the except clause, (idx, None)
Collect(c) ==
    /\ main_pc = "collect"
    /\ c \in 1..submitted
    /\ Finished(c)
    /\ c \notin Collected
    /\ results' = Append(results, <<c, FutureResult(c)>>)
    /\ yielded' = Append(yielded, c)
    /\ UNCHANGED ext
    /\ UNCHANGED <<retry_attempts, usage_stats, calls, main_pc, prompts,
                   max_workers, submitted, ret, stats_at_call, sends>>

\* list.sort(key=lambda x: x[0]): a stable insertion by key
RECURSIVE InsertByKey(_, _)
InsertByKey(sorted, x) ==
    IF sorted = <<>> THEN <<x>>
    ELSE IF Head(sorted)[1] <= x[1] THEN <<Head(sorted)>> \o InsertByKey(Tail(sorted), x)
    ELSE <<x>> \o sorted

RECURSIVE SortByKey(_)
SortByKey(s) ==
    IF s = <<>> THEN <<>>
    ELSE InsertByKey(SortByKey(SubSeq(s, 1, Len(s) - 1)), s[Len(s)])

\* mutant of Ordered: the results are left in the order of completion
OrderedAsCompleted(res) == res

\* results.sort(key=lambda x: x[0])
Ordered(res) == SortByKey(res)

\* mutant of BatchReturn: the executor is left without waiting for its tasks
BatchReturnEarly ==
    /\ main_pc = "collect"
    /\ main_pc' = "idle"
    /\ results' = Ordered(results)
    /\ ret' = [op |-> "batch", ok |-> TRUE,
               value |-> [k \in 1..Len(results) |-> Ordered(results)[k][2]]]
    /\ UNCHANGED ext
    /\ UNCHANGED <<retry_attempts, usage_stats, calls, prompts, max_workers,
                   submitted, yielded, stats_at_call, sends>>

\* as_completed is exhausted, the executor is shut down (every task is over):
\* results.sort(key=lambda x: x[0]); return [r[1] for r in results]
BatchReturn ==
    /\ main_pc = "collect"
    /\ Collected = 1..submitted
    /\ main_pc' = "idle"
    /\ results' = Ordered(results)
    /\ ret' = [op |-> "batch", ok |-> TRUE,
               value |-> [k \in 1..Len(results) |-> Ordered(results)[k][2]]]
    /\ UNCHANGED ext
    /\ UNCHANGED <<retry_attempts, usage_stats, calls, prompts, max_workers,
                   submitted, yielded, stats_at_call, sends>>

\* --------------------------------------------------- analyze_performance
\* Python's a / b: ZeroDivisionError where b is 0, else the quotient num/den
Divide(a, b) ==
    IF b = 0 THEN [err |-> TRUE, num |-> 0, den |-> 1]
    ELSE [err |-> FALSE, num |-> a, den |-> b]

\* the nearest integer to num/den, ties to the even one: what the formats
\* "{:.2f}" and "{:.4f}" do to the digits they drop
RoundHalfEven(num, den) ==
    LET q == num \div den
        r == num % den
    IN  IF 2 * r < den THEN q
        ELSE IF 2 * r > den THEN q + 1
        ELSE IF q % 2 = 0 THEN q ELSE q + 1

\* mutant of NoRequestsYet: failed sends count as requests made
NoRequestsOrFailuresYet(stats) ==
    stats.total_requests + stats.failed_requests = 0

\* if self.usage_stats["total_requests"] == 0
NoRequestsYet(stats) == stats.total_requests = 0

\* {"message": "No requests made yet"}
NoRequestsMessage ==
    [kind |-> "No requests made yet", total_requests |-> 0, success_rate |-> 0,
     average_tokens_per_request |-> Divide(0, 1), total_tokens |-> 0,
     estimated_cost |-> 0, failed_requests |-> 0]

\* an uncaught ZeroDivisionError, in the shape of a result
ZeroDivisionError ==
    [kind |-> "ZeroDivisionError", total_requests |-> 0, success_rate |-> 0,
     average_tokens_per_request |-> Divide(0, 1), total_tokens |-> 0,
     estimated_cost |-> 0, failed_requests |-> 0]

\* success_rate is in hundredths of a percent ("{:.2f}%"), estimated_cost in
\* units of 0.0001 dollars ("${:.4f}"), the average the exact quotient
analyze_performance(stats) ==
    IF NoRequestsYet(stats) THEN NoRequestsMessage
    ELSE
        LET rate == Divide(stats.successful_requests, stats.total_requests)
            avg_tokens ==
                IF stats.successful_requests > 0
                THEN Divide(stats.total_tokens, stats.successful_requests)
                ELSE Divide(0, 1)
        IN  IF rate.err \/ avg_tokens.err THEN ZeroDivisionError
            ELSE [kind |-> "summary",
                  total_requests |-> stats.total_requests,
                  success_rate |-> RoundHalfEven(rate.num * 100 * 100, rate.den),
                  average_tokens_per_request |-> avg_tokens,
                  total_tokens |-> stats.total_tokens,
                  estimated_cost |-> RoundHalfEven(stats.total_cost, 10),
                  failed_requests |-> stats.failed_requests]

\* The client calls analyze_performance() between two operations.
AnalyzePerformance ==
    /\ main_pc = "idle"
    /\ ret' = [op |-> "analyze",
               ok |-> analyze_performance(usage_stats).kind # "ZeroDivisionError",
               value |-> <<analyze_performance(usage_stats)>>]
    /\ UNCHANGED ext
    /\ UNCHANGED <<retry_attempts, usage_stats, calls, main_pc, prompts,
                   max_workers, submitted, results, yielded, stats_at_call, sends>>

\* ---------------------------------------------------- the specification
\* the batches tried: "p", "q", "p", ... cut at every length up to MaxBatch
BatchInputs ==
    {[i \in 1..n |-> IF i % 2 = 1 THEN "p" ELSE "q"] : n \in 0..MaxBatch}

Next ==
    \/ \E p \in PromptSet : CallSendMessage(p)
    \/ SendMessageDone
    \/ \E ps \in BatchInputs, mw \in 1..MaxWorkers : CallBatchProcess(ps, mw)
    \/ Submit
    \/ AsCompleted
    \/ \E c \in 1..MaxBatch : WorkerStart(c)
    \/ \E c \in 1..MaxBatch : Collect(c)
    \/ BatchReturn
    \/ AnalyzePerformance
    \/ \E c \in CallIds : SendStep(c)

Spec == Init /\ [][Next]_vars

\* The client that never calls batch_process: every send_message runs alone,
\* on the client's own thread.
NextSerial ==
    \/ \E p \in PromptSet : CallSendMessage(p)
    \/ SendMessageDone
    \/ AnalyzePerformance
    \/ SendStep(0)

SpecSerial == Init /\ [][NextSerial]_vars

\* main(): batch_results = optimizer.batch_process(prompts), the one batch
\* of the run, here with nothing sent before it
CallBatchProcessOnce(ps, mw) ==
    /\ sends = 0
    /\ CallBatchProcess(ps, mw)

\* The client that calls batch_process and nothing after it.
NextBatch ==
    \/ \E ps \in BatchInputs, mw \in 1..MaxWorkers : CallBatchProcessOnce(ps, mw)
    \/ Submit
    \/ AsCompleted
    \/ \E c \in 1..MaxBatch : WorkerStart(c)
    \/ \E c \in 1..MaxBatch : Collect(c)
    \/ BatchReturn
    \/ \E c \in 1..MaxBatch : SendStep(c)

\* what the threads of a running batch_process can do next: the caller's
\* thread submits, waits for futures and returns, the workers run their sends
BatchStep ==
    \/ Submit
    \/ AsCompleted
    \/ \E c \in 1..MaxBatch : WorkerStart(c)
    \/ \E c \in 1..MaxBatch : Collect(c)
    \/ BatchReturn
    \/ \E c \in 1..MaxBatch : SendStep(c)

\* Threads that can run are run, and session.post comes back (timeout=30):
\* a batch_process that can take a step eventually takes one.
SpecBatchFair == Init /\ [][NextBatch]_vars /\ WF_vars(BatchStep)

\* ------------------------------------------------- send_message arguments
SystemArgs == {NoArg, <<"">>, <<"sys">>}
MaxTokensArgs == {NoArg} \cup {<<n>> : n \in 0..MaxTokensArg}

\* The client that calls send_message with every choice of optional arguments.
NextPayload ==
    \/ \E p \in PromptSet, system \in SystemArgs, max_tokens \in MaxTokensArgs :
           SendMessageCall(p, system, max_tokens)
    \/ SendMessageDone
    \/ SendStep(0)

SpecPayload == Init /\ [][NextPayload]_vars

\* ------------------------------------------------------ estimate_revenue
\* quantity * 0.10, in tenths of a dollar per request
CostPerRequest == 1

ServiceTypes ==
    {"blog_post", "code_generation", "data_analysis", "marketing_campaign",
     "translation"}

\* self.pricing.get(service_type, 0)
PricingGet(table, service_type) ==
    IF service_type \in DOMAIN table THEN table[service_type] ELSE 0

\* mutant of Margin: the quotient is not turned into a percentage
MarginAsFraction(profit, total_revenue) ==
    IF total_revenue > 0
    THEN RoundHalfEven(profit * 100, total_revenue)
    ELSE 0

\* (profit / total_revenue * 100) if total_revenue > 0 else 0, formatted
\* "{:.2f}%": in hundredths of a percent
Margin(profit, total_revenue) ==
    IF total_revenue > 0
    THEN RoundHalfEven(profit * 100 * 100, total_revenue)
    ELSE 0

\* money is in tenths of a dollar
estimate_revenue(table, service_type, quantity, custom_pricing) ==
    LET price_per_unit == OrDefault(custom_pricing, PricingGet(table, service_type))
        total_revenue == price_per_unit * quantity
        estimated_cost == quantity * CostPerRequest
        profit == total_revenue - estimated_cost
    IN  [custom_pricing |-> custom_pricing,
         service_type |-> service_type,
         quantity |-> quantity,
         price_per_unit |-> price_per_unit,
         total_revenue |-> total_revenue,
         estimated_cost |-> estimated_cost,
         estimated_profit |-> profit,
         profit_margin |-> Margin(profit, total_revenue)]

\* The client calls estimate_revenue(service_type, quantity, custom_pricing).
EstimateRevenue(service_type, quantity, custom_pricing) ==
    /\ main_pc = "idle"
    /\ revenue' = estimate_revenue(pricing, service_type, quantity, custom_pricing)
    /\ UNCHANGED <<pricing, workflows, wf_stack, wf_call, wf_ret, wf_runs>>
    /\ UNCHANGED <<retry_attempts, usage_stats, calls, main_pc, prompts,
                   max_workers, submitted, results, yielded, ret,
                   stats_at_call, sends>>

Quantities == (0 - 1)..MaxQuantity
CustomPricings == {NoArg, <<0>>, <<5>>}

NextRevenue ==
    \E service_type \in ServiceTypes, quantity \in Quantities,
       custom_pricing \in CustomPricings :
        EstimateRevenue(service_type, quantity, custom_pricing)

SpecRevenue == Init /\ [][NextRevenue]_vars

\* ---------------------------------------------------- WorkflowAutomation
WorkflowNames == {"main", "sub", "leaf"}

\* A step dict: type, and the keys its type reads.
PromptStep(content) ==
    [type |-> "prompt", content |-> content, prompts |-> <<>>,
     condition |-> "", true_workflow |-> ""]

BatchStepOf(ps) ==
    [type |-> "batch", content |-> "", prompts |-> ps,
     condition |-> "", true_workflow |-> ""]

ConditionStep(condition, true_workflow) ==
    [type |-> "condition", content |-> "", prompts |-> <<>>,
     condition |-> condition, true_workflow |-> true_workflow]

\* a step whose type is none of the three execute_workflow knows
OtherStep ==
    [type |-> "log", content |-> "", prompts |-> <<>>,
     condition |-> "", true_workflow |-> ""]

\* A context dict: a function from its keys to strings.
EmptyContext == [k \in {} |-> ""]
XContext == [k \in {"x"} |-> "q"]

\* the context argument: None or {"x": "q"} (the recursive call passes {})
ContextArgs == {NoArg, <<XContext>>}

\* workflow_context = context or {}: None and the empty dict are falsy
ContextOrEmpty(context) ==
    IF context # NoArg /\ DOMAIN context[1] # {} THEN context[1]
    ELSE EmptyContext

\* step["content"].format(**workflow_context) for the contents "p", "q" and
\* "{x}": <<text>>, or <<>> where format raises KeyError
Format(content, context) ==
    IF content = "{x}"
    THEN IF "x" \in DOMAIN context THEN <<context["x"]>> ELSE <<>>
    ELSE <<content>>

\* eval(condition, {"context": workflow_context, "results": results}) for
\* the three expressions the registered steps use
Eval(condition, context, res) ==
    CASE condition = "True" -> TRUE
      [] condition = "len(results) > 0" -> Len(res) > 0
      [] condition = "'x' in context" -> "x" \in DOMAIN context

\* An execute_workflow activation: name, the index of the step the loop is
\* at, the local results, workflow_context, and whether the loop is about to
\* run the step ("step") or waits for what the step called.
Frame(name, context, res) ==
    [name |-> name, pc |-> 1, results |-> res, context |-> context,
     at |-> "step"]

\* The registries the client builds, one register_workflow call at a time.
\* Acyclic, with every kind of step but batch:
RegistryChain ==
    [n \in WorkflowNames |->
        CASE n = "main" ->
                 <<PromptStep("p"), ConditionStep("len(results) > 0", "sub"),
                   OtherStep, PromptStep("{x}")>>
          [] n = "sub" ->
                 <<ConditionStep("len(results) > 0", "leaf"), PromptStep("q"),
                   ConditionStep("'x' in context", "leaf")>>
          [] n = "leaf" -> <<PromptStep("q")>>]

\* A single workflow with a batch step:
RegistryBatch ==
    [n \in {"main"} |-> <<BatchStepOf(<<"p", "q">>), OtherStep>>]

\* main reaches itself through sub when the context has the key x:
RegistryCycle ==
    [n \in {"main", "sub"} |->
        CASE n = "main" ->
                 <<PromptStep("p"), ConditionStep("'x' in context", "sub")>>
          [] n = "sub" -> <<ConditionStep("True", "main")>>]

Registries == {RegistryChain, RegistryBatch, RegistryCycle}

\* what is registered so far is part of the registry reg
Extends(reg) ==
    \A n \in DOMAIN workflows : n \in DOMAIN reg /\ reg[n] = workflows[n]

\* register_workflow(name, steps): self.workflows[name] = steps
RegisterWorkflow(name, steps) ==
    /\ main_pc = "idle"
    /\ wf_stack = <<>>
    /\ workflows' = [n \in DOMAIN workflows \cup {name} |->
                         IF n = name THEN steps ELSE workflows[n]]
    /\ UNCHANGED <<pricing, revenue, wf_stack, wf_call, wf_ret, wf_runs>>
    /\ UNCHANGED <<retry_attempts, usage_stats, calls, main_pc, prompts,
                   max_workers, submitted, results, yielded, ret,
                   stats_at_call, sends>>

\* the state of ClaudeOptimizer
opt == <<retry_attempts, usage_stats, calls, main_pc, prompts, max_workers,
         submitted, results, yielded, ret, stats_at_call, sends>>

\* the innermost execute_workflow activation and the step its loop is at
Top == wf_stack[Len(wf_stack)]
Steps == workflows[Top.name]
CurrentStep == Steps[Top.pc]
SetTop(f) == [wf_stack EXCEPT ![Len(wf_stack)] = f]

\* the loop of the innermost activation is about to run a step of this kind
AtStep(types) ==
    /\ wf_stack # <<>>
    /\ Top.at = "step"
    /\ Top.pc <= Len(Steps)
    /\ CurrentStep.type \in types

\* an exception leaves every activation: execute_workflow catches nothing
Raise(status, depth) ==
    /\ wf_stack' = <<>>
    /\ wf_ret' = [status |-> status, depth |-> depth, value |-> <<>>]

\* mutant of ExecuteWorkflow: a name that is not registered stands for a
\* workflow without steps
ExecuteWorkflowDefault(name, context) ==
    /\ main_pc = "idle"
    /\ wf_stack = <<>>
    /\ wf_call' = [name |-> name, context |-> context]
    /\ IF name \notin DOMAIN workflows
       THEN /\ wf_ret' = [status |-> "returned", depth |-> 0, value |-> <<>>]
            /\ UNCHANGED <<wf_stack, wf_runs, stats_at_call>>
       ELSE /\ wf_runs = 0
            /\ wf_runs' = 1
            /\ wf_stack' = <<Frame(name, ContextOrEmpty(context), <<>>)>>
            /\ wf_ret' = NoWfRet
            /\ stats_at_call' = usage_stats
    /\ UNCHANGED <<pricing, revenue, workflows>>
    /\ UNCHANGED <<retry_attempts, usage_stats, calls, main_pc, prompts,
                   max_workers, submitted, results, yielded, ret, sends>>

\* The client calls execute_workflow(name, context), the one workflow it
\* runs: ValueError at once where the name is not registered, else
\* results = [] and workflow_context = context or {}.
ExecuteWorkflow(name, context) ==
    /\ main_pc = "idle"
    /\ wf_stack = <<>>
    /\ wf_call' = [name |-> name, context |-> context]
    /\ IF name \notin DOMAIN workflows
       THEN /\ wf_ret' = [status |-> "ValueError", depth |-> 0, value |-> <<>>]
            /\ UNCHANGED <<wf_stack, wf_runs, stats_at_call>>
       ELSE /\ wf_runs = 0
            /\ wf_runs' = 1
            /\ wf_stack' = <<Frame(name, ContextOrEmpty(context), <<>>)>>
            /\ wf_ret' = NoWfRet
            /\ stats_at_call' = usage_stats
    /\ UNCHANGED <<pricing, revenue, workflows>>
    /\ UNCHANGED <<retry_attempts, usage_stats, calls, main_pc, prompts,
                   max_workers, submitted, results, yielded, ret, sends>>

\* a prompt step: self.optimizer.send_message(step["content"].format(...))
WfPrompt ==
    /\ AtStep({"prompt"})
    /\ main_pc = "idle"
    /\ LET text == Format(CurrentStep.content, Top.context)
       IN  IF text = <<>>
           THEN /\ Raise("KeyError", Len(wf_stack) - 1)
                /\ UNCHANGED <<calls, main_pc, ret, prompts, submitted,
                               results, yielded>>
           ELSE /\ calls' = [c \in CallIds |->
                                IF c = 0 THEN NewCall(text[1], "loop")
                                ELSE NoCall]
                /\ main_pc' = "send"
                /\ ret' = NoRet
                /\ prompts' = <<>>
                /\ submitted' = 0
                /\ results' = <<>>
                /\ yielded' = <<>>
                /\ wf_stack' = SetTop([Top EXCEPT !.at = "prompt_wait"])
                /\ UNCHANGED wf_ret
    /\ UNCHANGED <<pricing, revenue, workflows, wf_call, wf_runs>>
    /\ UNCHANGED <<retry_attempts, usage_stats, max_workers, stats_at_call,
                   sends>>

\* mutant of WfPromptDone: a failed send is recorded as None and the loop
\* goes on
WfPromptDoneSwallow ==
    /\ wf_stack # <<>>
    /\ Top.at = "prompt_wait"
    /\ main_pc = "idle"
    /\ ret.op = "send"
    /\ wf_stack' = SetTop([Top EXCEPT
                               !.results = Append(@, IF ret.ok THEN ret.value[1] ELSE None),
                               !.pc = @ + 1, !.at = "step"])
    /\ UNCHANGED wf_ret
    /\ UNCHANGED <<pricing, revenue, workflows, wf_call, wf_runs>>
    /\ UNCHANGED opt

\* send_message is back: results.append(result), or its exception goes up
WfPromptDone ==
    /\ wf_stack # <<>>
    /\ Top.at = "prompt_wait"
    /\ main_pc = "idle"
    /\ ret.op = "send"
    /\ IF ret.ok
       THEN /\ wf_stack' = SetTop([Top EXCEPT !.results = Append(@, ret.value[1]),
                                               !.pc = @ + 1, !.at = "step"])
            /\ UNCHANGED wf_ret
       ELSE Raise("Exception", Len(wf_stack) - 1)
    /\ UNCHANGED <<pricing, revenue, workflows, wf_call, wf_runs>>
    /\ UNCHANGED opt

\* batch_process's default max_workers
DefaultMaxWorkers == 5

\* a batch step: self.optimizer.batch_process(step["prompts"])
WfBatch ==
    /\ AtStep({"batch"})
    /\ main_pc = "idle"
    /\ main_pc' = "submit"
    /\ prompts' = CurrentStep.prompts
    /\ max_workers' = DefaultMaxWorkers
    /\ submitted' = 0
    /\ results' = <<>>
    /\ yielded' = <<>>
    /\ calls' = [c \in CallIds |-> NoCall]
    /\ ret' = NoRet
    /\ wf_stack' = SetTop([Top EXCEPT !.at = "batch_wait"])
    /\ UNCHANGED <<pricing, revenue, workflows, wf_call, wf_ret, wf_runs>>
    /\ UNCHANGED <<retry_attempts, usage_stats, stats_at_call, sends>>

\* batch_process is back: results.extend(batch_results)
WfBatchDone ==
    /\ wf_stack # <<>>
    /\ Top.at = "batch_wait"
    /\ main_pc = "idle"
    /\ ret.op = "batch"
    /\ wf_stack' = SetTop([Top EXCEPT !.results = @ \o ret.value,
                                       !.pc = @ + 1, !.at = "step"])
    /\ UNCHANGED <<pricing, revenue, workflows, wf_call, wf_ret, wf_runs>>
    /\ UNCHANGED opt

\* mutant of NewFrame: the sub-workflow goes on with its parent's results
NewFrameSharing(name, parent) ==
    Frame(name, ContextOrEmpty(<<parent.context>>), parent.results)

\* self.execute_workflow(step["true_workflow"], workflow_context) begins:
\* results = [], workflow_context = context or {}
NewFrame(name, parent) ==
    Frame(name, ContextOrEmpty(<<parent.context>>), <<>>)

\* mutant of WfCondition: at the deepest activation allowed the condition
\* step is passed over as if its condition were false
WfConditionCapped ==
    /\ AtStep({"condition"})
    /\ IF Eval(CurrentStep.condition, Top.context, Top.results)
          /\ Len(wf_stack) < MaxDepth
       THEN IF CurrentStep.true_workflow \notin DOMAIN workflows
            THEN Raise("ValueError", Len(wf_stack))
            ELSE /\ wf_stack' =
                        Append(SetTop([Top EXCEPT !.at = "call"]),
                               NewFrame(CurrentStep.true_workflow, Top))
                 /\ UNCHANGED wf_ret
       ELSE /\ wf_stack' = SetTop([Top EXCEPT !.pc = @ + 1])
            /\ UNCHANGED wf_ret
    /\ UNCHANGED <<pricing, revenue, workflows, wf_call, wf_runs>>
    /\ UNCHANGED opt

\* a condition step: where eval(...) is true, the recursive call; the
\* interpreter raises RecursionError for a call deeper than it allows
\* (MaxDepth activations here), the callee ValueError for an unknown name
WfCondition ==
    /\ AtStep({"condition"})
    /\ IF Eval(CurrentStep.condition, Top.context, Top.results)
       THEN IF Len(wf_stack) >= MaxDepth
            THEN Raise("RecursionError", Len(wf_stack))
            ELSE IF CurrentStep.true_workflow \notin DOMAIN workflows
            THEN Raise("ValueError", Len(wf_stack))
            ELSE /\ wf_stack' =
                        Append(SetTop([Top EXCEPT !.at = "call"]),
                               NewFrame(CurrentStep.true_workflow, Top))
                 /\ UNCHANGED wf_ret
       ELSE /\ wf_stack' = SetTop([Top EXCEPT !.pc = @ + 1])
            /\ UNCHANGED wf_ret
    /\ UNCHANGED <<pricing, revenue, workflows, wf_call, wf_runs>>
    /\ UNCHANGED opt

\* a step of any other type: no branch of the if/elif chain is taken
WfOther ==
    /\ wf_stack # <<>>
    /\ Top.at = "step"
    /\ Top.pc <= Len(Steps)
    /\ CurrentStep.type \notin {"prompt", "batch", "condition"}
    /\ wf_stack' = SetTop([Top EXCEPT !.pc = @ + 1])
    /\ UNCHANGED <<pricing, revenue, workflows, wf_call, wf_ret, wf_runs>>
    /\ UNCHANGED opt

\* the loop is over: return results; in the caller, a condition step of the
\* activation below, results.extend(sub_results)
WfReturn ==
    /\ wf_stack # <<>>
    /\ Top.at = "step"
    /\ Top.pc > Len(Steps)
    /\ IF Len(wf_stack) = 1
       THEN /\ wf_stack' = <<>>
            /\ wf_ret' = [status |-> "returned", depth |-> 0,
                          value |-> Top.results]
       ELSE /\ wf_stack' =
                   [SubSeq(wf_stack, 1, Len(wf_stack) - 1) EXCEPT
                        ![Len(wf_stack) - 1] =
                            [@ EXCEPT !.results = @ \o Top.results,
                                      !.pc = @ + 1, !.at = "step"]]
            /\ UNCHANGED wf_ret
    /\ UNCHANGED <<pricing, revenue, workflows, wf_call, wf_runs>>
    /\ UNCHANGED opt

\* the client registers, before it executes anything, one more workflow of
\* one of the registries regs
RegisterFrom(regs) ==
    \E reg \in regs : \E name \in DOMAIN reg :
        /\ wf_runs = 0
        /\ Extends(reg)
        /\ RegisterWorkflow(name, reg[name])

\* The client that registers workflows and then executes one of them.
NextWorkflow ==
    \/ RegisterFrom(Registries)
    \/ \E name \in WorkflowNames, context \in ContextArgs :
           ExecuteWorkflow(name, context)
    \/ WfPrompt
    \/ WfPromptDone
    \/ WfBatch
    \/ WfBatchDone
    \/ WfCondition
    \/ WfOther
    \/ WfReturn
    \/ SendMessageDone
    \/ Submit
    \/ AsCompleted
    \/ \E c \in 1..MaxBatch : WorkerStart(c)
    \/ \E c \in 1..MaxBatch : Collect(c)
    \/ BatchReturn
    \/ \E c \in CallIds : SendStep(c)

SpecWorkflow == Init /\ [][NextWorkflow]_vars

\* The client whose workflows have no batch step: every send runs alone, on
\* the client's own thread.
NextWorkflowSerial ==
    \/ RegisterFrom({RegistryChain, RegistryCycle})
    \/ \E name \in WorkflowNames, context \in ContextArgs :
           ExecuteWorkflow(name, context)
    \/ WfPrompt
    \/ WfPromptDone
    \/ WfCondition
    \/ WfOther
    \/ WfReturn
    \/ SendMessageDone
    \/ SendStep(0)

SpecWorkflowSerial == Init /\ [][NextWorkflowSerial]_vars

\* what a running execute_workflow can do next, in its own loop or in the
\* send_message it waits for
WorkflowStep ==
    \/ WfPrompt
    \/ WfPromptDone
    \/ WfCondition
    \/ WfOther
    \/ WfReturn
    \/ SendMessageDone
    \/ SendStep(0)

\* The client's thread runs, and session.post comes back (timeout=30): an
\* execute_workflow that can take a step eventually takes one.
SpecWorkflowSerialFair ==
    Init /\ [][NextWorkflowSerial]_vars /\ WF_vars(WorkflowStep)

\* ------------------------------------------------------------- claims
SuccessPath ==
    {"load_total_requests", "store_total_requests", "load_successful_requests",
     "store_successful_requests", "load_total_tokens", "store_total_tokens",
     "load_total_cost", "store_total_cost", "returned"}

\* C1: a send_message call that succeeds after k failed attempts (k below
\* retry_attempts) has issued exactly k+1 HTTP attempts, the last of them the
\* one that answered 200, holds that attempt's response and issues no attempt
\* after it; a call that fails has issued exactly retry_attempts attempts,
\* none of which answered 200.
C1_RetryAttempts ==
    \A c \in CallIds :
        /\ calls[c].pc \in SuccessPath =>
               /\ calls[c].posts = calls[c].attempt + 1
               /\ calls[c].posts <= retry_attempts
               /\ calls[c].last = Attempt(calls[c].posts - 1, "ok")
               /\ calls[c].result \in Responses(calls[c].prompt)
        /\ calls[c].pc \in {"store_failed_requests", "raised"} =>
               /\ calls[c].posts = retry_attempts
               /\ calls[c].last.out # "ok"
               /\ calls[c].result = None
        /\ (c = 0 /\ ret.op = "send") =>
               /\ ret.ok <=> calls[0].pc = "returned"
               /\ ret.value = <<calls[0].result>>

\* C1 witness: with retry_attempts = 3, a call has returned the response of
\* its third attempt, after an earlier call failed for good.
C1_Witness ==
    /\ retry_attempts = 3
    /\ ret.op = "send"
    /\ ret.ok
    /\ calls[0].posts = 3
    /\ ret.value[1] \in Responses(calls[0].prompt)
    /\ usage_stats.failed_requests >= 1

\* C2: batch_process returns as many elements as there are prompts, and
\* element i is the outcome of the send for prompts[i] (its response, None
\* where that send failed), whatever the order of completion.
C2_BatchOrder ==
    ret.op = "batch" =>
        /\ Len(ret.value) = Len(prompts)
        /\ \A i \in 1..Len(prompts) :
               /\ calls[i].prompt = prompts[i]
               /\ calls[i].pc = "returned" =>
                      /\ ret.value[i] = calls[i].result
                      /\ ret.value[i].content = prompts[i]
               /\ calls[i].pc # "returned" => ret.value[i] = None

\* C2 witness: a batch has returned whose second task completed first.
C2_Witness ==
    /\ ret.op = "batch"
    /\ Len(prompts) = 2
    /\ yielded = <<2, 1>>
    /\ calls[1].pc = "returned"
    /\ calls[2].pc = "returned"

\* C3: batch_process returns normally with one entry per prompt, None exactly
\* at the prompts whose send failed; every task was sent and came to its end,
\* failing siblings or not.
C3_BatchFailures ==
    ret.op = "batch" =>
        /\ ret.ok
        /\ Len(ret.value) = Len(prompts)
        /\ \A i \in 1..Len(prompts) :
               /\ Finished(i)
               /\ calls[i].posts >= 1
               /\ ret.value[i].is_none <=> calls[i].pc = "raised"

\* C3 witness: a batch of two has returned in which exactly the first send
\* failed.
C3_Witness ==
    /\ ret.op = "batch"
    /\ Len(prompts) = 2
    /\ calls[1].pc = "raised"
    /\ calls[2].pc = "returned"
    /\ ret.value[1] = None
    /\ ret.value[2] # None

\* C4: a successful send_message that runs alone adds 1 to total_requests and
\* to successful_requests, leaves failed_requests as it was and adds the
\* response's total_tokens (0 without a usage record or without total_tokens)
\* to total_tokens.
C4_SuccessCounters ==
    (ret.op = "send" /\ ret.ok) =>
        LET response == ret.value[1]
            tokens == IF response.has_usage /\ response.has_total
                      THEN response.total_tokens ELSE 0
        IN  /\ usage_stats.total_requests = stats_at_call.total_requests + 1
            /\ usage_stats.successful_requests =
                   stats_at_call.successful_requests + 1
            /\ usage_stats.failed_requests = stats_at_call.failed_requests
            /\ usage_stats.total_tokens = stats_at_call.total_tokens + tokens

\* C4 witness: a send has succeeded after failed attempts, from counters that
\* were not the initial ones, with a response that carries no total_tokens.
C4_Witness ==
    /\ ret.op = "send"
    /\ ret.ok
    /\ calls[0].attempt >= 1
    /\ stats_at_call.total_requests >= 1
    /\ stats_at_call.failed_requests >= 1
    /\ ret.value[1].has_usage
    /\ ~ret.value[1].has_total

\* the tasks of the batch that returned a response
Succeeded == {i \in 1..Len(prompts) : calls[i].pc = "returned"}

\* C5: after a batch of N prompts of which S succeeded, total_requests and
\* successful_requests have each grown by exactly S and failed_requests by
\* exactly N - S, for every interleaving of the workers (no update is lost).
C5_NoLostUpdate ==
    ret.op = "batch" =>
        /\ usage_stats.total_requests =
               stats_at_call.total_requests + Cardinality(Succeeded)
        /\ usage_stats.successful_requests =
               stats_at_call.successful_requests + Cardinality(Succeeded)
        /\ usage_stats.failed_requests =
               stats_at_call.failed_requests
                   + (Len(prompts) - Cardinality(Succeeded))

\* C6: failed_requests counts calls, not attempts.  A send_message that runs
\* alone and exhausts its attempts adds exactly 1 to failed_requests and
\* leaves the four other counters as they were; while attempts are still
\* being made no counter has changed; a call that succeeds after failed
\* attempts leaves failed_requests as it was.
C6_FailedCountsCalls ==
    /\ (ret.op = "send" /\ ~ret.ok) =>
           usage_stats = [stats_at_call EXCEPT !.failed_requests = @ + 1]
    /\ (main_pc = "send" /\ calls[0].pc \in {"loop", "sleep"}) =>
           usage_stats = stats_at_call
    /\ (ret.op = "send" /\ ret.ok) =>
           usage_stats.failed_requests = stats_at_call.failed_requests

\* C6 witness: a send has failed after three attempts, the counters differing
\* from those before the call by one failed request.
C6_Witness ==
    /\ ret.op = "send"
    /\ ~ret.ok
    /\ calls[0].posts = 3
    /\ usage_stats.failed_requests = stats_at_call.failed_requests + 1
    /\ stats_at_call.failed_requests >= 1

\* C7 as stated: a send_message that exhausts its attempts leaves every
\* counter of usage_stats as it was.
C7_FailureChangesNothing ==
    (ret.op = "send" /\ ~ret.ok) => usage_stats = stats_at_call

\* the activation that takes the step, if the step is a store to usage_stats
Storing(c) == calls[c].pc # calls'[c].pc

\* C7 amended: total_requests, successful_requests, total_tokens and
\* total_cost are written on the success path only, by a call that holds a
\* response; a call that has exhausted its attempts writes failed_requests
\* alone, and nothing else writes failed_requests.
C7_FailureWritesFailedOnly ==
    [][\A c \in CallIds :
           Storing(c) =>
               /\ calls[c].pc \in {"store_failed_requests", "raised"} \/
                      calls[c].last.out # "ok" =>
                      /\ usage_stats'.total_requests = usage_stats.total_requests
                      /\ usage_stats'.successful_requests =
                             usage_stats.successful_requests
                      /\ usage_stats'.total_tokens = usage_stats.total_tokens
                      /\ usage_stats'.total_cost = usage_stats.total_cost
               /\ usage_stats'.failed_requests # usage_stats.failed_requests =>
                      /\ calls[c].pc = "store_failed_requests"
                      /\ calls[c].posts = retry_attempts
                      /\ calls'[c].pc = "raised"
                      /\ usage_stats' = [usage_stats EXCEPT !.failed_requests =
                                             calls[c].tmp + 1]]_vars

\* C7 witness: a send has failed and only failed_requests differs from the
\* counters before the call.
C7_Witness ==
    /\ ret.op = "send"
    /\ ~ret.ok
    /\ usage_stats # stats_at_call
    /\ [usage_stats EXCEPT !.failed_requests = 0] =
           [stats_at_call EXCEPT !.failed_requests = 0]
    /\ stats_at_call.total_requests >= 1

\* C8: in every state between two operations analyze_performance raises no
\* ZeroDivisionError; it gives the "No requests made yet" message exactly
\* when total_requests is 0, and otherwise the summary, whose success rate is
\* successful_requests / total_requests as a percentage and whose average is
\* total_tokens / successful_requests; the call changes no counter.
C8_AnalyzePerformance ==
    /\ main_pc = "idle" =>
           LET r == analyze_performance(usage_stats)
           IN  /\ r.kind # "ZeroDivisionError"
               /\ r.kind = "No requests made yet" <=> usage_stats.total_requests = 0
               /\ usage_stats.total_requests # 0 =>
                      /\ r.kind = "summary"
                      /\ usage_stats.successful_requests # 0
                      /\ ~r.average_tokens_per_request.err
                      /\ r.average_tokens_per_request.num
                             * usage_stats.successful_requests =
                         usage_stats.total_tokens
                             * r.average_tokens_per_request.den
                      /\ 2 * (r.success_rate * usage_stats.total_requests
                              - 10000 * usage_stats.successful_requests)
                             <= usage_stats.total_requests
                      /\ 2 * (10000 * usage_stats.successful_requests
                              - r.success_rate * usage_stats.total_requests)
                             <= usage_stats.total_requests
                      /\ r.total_requests = usage_stats.total_requests
                      /\ r.total_tokens = usage_stats.total_tokens
                      /\ r.failed_requests = usage_stats.failed_requests
    /\ ret.op = "analyze" =>
           /\ ret.ok
           /\ ret.value = <<analyze_performance(usage_stats)>>

\* C8 witness: analyze_performance has answered "No requests made yet" after
\* sends that all failed.
C8_Witness ==
    /\ ret.op = "analyze"
    /\ ret.value[1].kind = "No requests made yet"
    /\ usage_stats.failed_requests >= 2
    /\ usage_stats.total_requests = 0

\* C9: inside one send_message call a network-level failure on zero-based
\* attempt a is followed by a sleep of exactly 2^a seconds and by nothing
\* else; a status other than 200 is followed by no sleep: the next thing the
\* call does is the next attempt, if one remains, and the status itself
\* raises nothing (the call leaves the loop only when no attempt remains).
C9_Backoff ==
    [][\A c \in CallIds :
           /\ (~Finished(c) /\ calls'[c].last # calls[c].last) =>
                  /\ calls'[c].last.ev = "sleep" =>
                         /\ calls[c].last.ev = "attempt"
                         /\ calls[c].last.out = "neterr"
                         /\ calls'[c].last.n = calls[c].last.n
                         /\ calls'[c].last.secs = 2 ^ calls[c].last.n
                  /\ calls[c].last.out = "neterr" =>
                         calls'[c].last.ev = "sleep"
                  /\ calls[c].last.out = "status" =>
                         /\ calls'[c].last.ev = "attempt"
                         /\ calls'[c].last.n = calls[c].last.n + 1
           /\ (calls[c].last.out = "status"
                   /\ calls[c].last.n + 1 < retry_attempts) =>
                  /\ calls[c].pc = "loop"
                  /\ calls'[c].pc \in {"loop", "sleep", "load_total_requests"}]_vars

\* C9 witness: a call has slept 2 seconds after the network-level failure of
\* its attempt 1 and has an attempt left to make.
C9_Witness ==
    /\ calls[0].last = Slept(1, 2)
    /\ calls[0].pc = "loop"
    /\ calls[0].attempt = 2
    /\ retry_attempts = 3

\* C10: every sleep inside send_message is followed by a further attempt of
\* the same call: a call that has just slept still has an attempt to make.
C10_SleepBeforeRetry ==
    \A c \in CallIds :
        calls[c].last.ev = "sleep" => calls[c].attempt \in LoopRange(retry_attempts)

\* C12: the request body carries the max_tokens the caller passed, whatever
\* its value, and the configured 4096 only when the caller passed none; it
\* carries a system field exactly when the caller gave a system instruction.
C12_PayloadOverride ==
    calls[0].pc # "unused" =>
        /\ calls[0].data.max_tokens =
               IF calls[0].max_tokens = NoArg THEN 4096
               ELSE calls[0].max_tokens[1]
        /\ calls[0].data.has_system <=>
               (calls[0].system # NoArg /\ calls[0].system # <<"">>)
        /\ calls[0].data.has_system => calls[0].data.system = calls[0].system[1]

\* C13: without a custom price estimate_revenue returns the table price of
\* the service type (0 for an unknown one) times the quantity as
\* total_revenue, 0.10 per unit as estimated_cost, their difference as
\* estimated_profit and profit / total_revenue * 100 to two decimals as
\* profit_margin (0 when total_revenue <= 0); ("blog_post", 10) gives 500.00,
\* 1.00, 499.00 and 99.80%.  No send is issued and neither usage_stats nor the
\* price table changes.  Money is in tenths of a dollar, the margin in
\* hundredths of a percent.
C13_EstimateRevenue ==
    (revenue # NoRevenue /\ revenue.custom_pricing = NoArg) =>
        LET price ==
                CASE revenue.service_type = "blog_post" -> 500
                  [] revenue.service_type = "code_generation" -> 1000
                  [] revenue.service_type = "data_analysis" -> 1500
                  [] revenue.service_type = "marketing_campaign" -> 2000
                  [] OTHER -> 0
            total == price * revenue.quantity
            profit == total - revenue.quantity
        IN  /\ revenue.price_per_unit = price
            /\ revenue.total_revenue = total
            /\ revenue.estimated_cost = revenue.quantity
            /\ revenue.estimated_profit = profit
            /\ total <= 0 => revenue.profit_margin = 0
            /\ total > 0 =>
                   /\ 2 * (revenue.profit_margin * total - 10000 * profit) <= total
                   /\ 2 * (10000 * profit - revenue.profit_margin * total) <= total
            /\ (revenue.service_type = "blog_post" /\ revenue.quantity = 10) =>
                   /\ revenue.total_revenue = 5000
                   /\ revenue.estimated_cost = 10
                   /\ revenue.estimated_profit = 4990
                   /\ revenue.profit_margin = 9980
            /\ pricing = PricingTable
            /\ \A c \in CallIds : calls[c] = NoCall
            /\ main_pc = "idle"
            /\ usage_stats = stats_at_call
            /\ usage_stats.total_requests = 0
            /\ usage_stats.failed_requests = 0

\* C13 witness: estimate_revenue("blog_post", 10) has returned.
C13_Witness ==
    /\ revenue.service_type = "blog_post"
    /\ revenue.quantity = 10
    /\ revenue.custom_pricing = NoArg
    /\ revenue.total_revenue = 5000
    /\ revenue.profit_margin = 9980

\* C14: between two sends of a client that sends one message at a time,
\* total_requests equals successful_requests; so successful_requests +
\* failed_requests equals total_requests exactly when no send has failed, and
\* the success rate analyze_performance reports, whenever it reports one, is
\* 100.00%.
C14_TotalIsSuccessful ==
    main_pc = "idle" =>
        /\ usage_stats.total_requests = usage_stats.successful_requests
        /\ (usage_stats.successful_requests + usage_stats.failed_requests
                = usage_stats.total_requests)
               <=> usage_stats.failed_requests = 0
        /\ analyze_performance(usage_stats).kind = "summary" =>
               analyze_performance(usage_stats).success_rate = 100 * 100
        /\ (ret.op = "analyze" /\ ret.value[1].kind = "summary") =>
               ret.value[1].success_rate = 100 * 100

\* C14 witness: after two failed sends and a successful one the reported
\* success rate is 100.00% and the three counters do not add up.
C14_Witness ==
    /\ ret.op = "analyze"
    /\ ret.value[1].kind = "summary"
    /\ ret.value[1].success_rate = 100 * 100
    /\ usage_stats.failed_requests = 2
    /\ usage_stats.total_requests = 1
    /\ usage_stats.successful_requests + usage_stats.failed_requests
           # usage_stats.total_requests
\* the HTTP attempts made so far by the tasks 1..n of the batch
RECURSIVE SumPosts(_)
SumPosts(n) == IF n = 0 THEN 0 ELSE calls[n].posts + SumPosts(n - 1)

InBatch == main_pc \in {"submit", "collect"}

\* C15: while batch_process runs, at most max_workers send_message calls are
\* in progress; the i-th submitted task is send_message on the i-th prompt,
\* no task exists for anything else, a task starts once (from the queue, with
\* no attempt made) and is not touched again once it is over; so the tasks of
\* a batch of N prompts make at most N * retry_attempts HTTP attempts, and at
\* the return each prompt has had its one call.
C15_BoundedPool ==
    /\ [](InBatch =>
             /\ Cardinality(Running) <= max_workers
             /\ submitted <= Len(prompts)
             /\ \A i \in 1..MaxBatch :
                    /\ i <= submitted =>
                           /\ calls[i].pc # "unused"
                           /\ calls[i].prompt = prompts[i]
                    /\ i > submitted => calls[i] = NoCall
             /\ calls[0] = NoCall
             /\ SumPosts(MaxBatch) <= Len(prompts) * retry_attempts)
    /\ [](ret.op = "batch" =>
             /\ submitted = Len(prompts)
             /\ \A i \in 1..Len(prompts) :
                    /\ Finished(i)
                    /\ calls[i].prompt = prompts[i]
                    /\ calls[i].posts \in 1..retry_attempts
             /\ SumPosts(MaxBatch) <= Len(prompts) * retry_attempts)
    /\ [][InBatch =>
             \A c \in 1..MaxBatch :
                 /\ (calls'[c].pc = "queued" /\ calls[c].pc # "queued") =>
                        calls[c].pc = "unused"
                 /\ calls[c].pc = "queued" =>
                        /\ calls'[c].pc \in {"queued", "loop"}
                        /\ calls'[c].posts = 0
                 /\ (calls'[c].pc = "loop" /\ calls[c].pc \notin {"loop", "sleep"}) =>
                        calls[c].pc = "queued"
                 /\ Finished(c) => calls'[c] = calls[c]]_vars

\* C15 witness: in a batch of two prompts on a pool of one worker the first
\* task is over after retry_attempts attempts, the second is at its last
\* attempt, and nothing else is running.
C15_Witness ==
    /\ main_pc = "collect"
    /\ Len(prompts) = 2
    /\ max_workers = 1
    /\ retry_attempts = 2
    /\ calls[1].pc = "raised"
    /\ calls[1].posts = 2
    /\ calls[2].pc = "sleep"
    /\ calls[2].posts = 2
    /\ SumPosts(MaxBatch) = Len(prompts) * retry_attempts
\* C16: a batch_process that has begun eventually returns; when it has
\* returned, every task it dispatched is over (none queued, none running,
\* one entry per prompt), and as long as its return value stands neither
\* usage_stats nor any of its tasks changes.
C16_FanIn ==
    /\ [](ret.op = "batch" =>
             /\ main_pc = "idle"
             /\ submitted = Len(prompts)
             /\ \A c \in 1..MaxBatch : c <= Len(prompts) => Finished(c)
             /\ Queued = {}
             /\ Running = {}
             /\ Len(ret.value) = Len(prompts))
    /\ [][(ret.op = "batch" /\ ret'.op = "batch") =>
              /\ usage_stats' = usage_stats
              /\ calls' = calls]_vars
    /\ (InBatch ~> ret.op = "batch")

\* C16 witness: a batch of two prompts has returned after one task succeeded
\* and the other exhausted its attempts, and the counters show both.
C16_Witness ==
    /\ ret.op = "batch"
    /\ Len(prompts) = 2
    /\ calls[1].pc = "raised"
    /\ calls[2].pc = "returned"
    /\ usage_stats.failed_requests = stats_at_call.failed_requests + 1
    /\ usage_stats.successful_requests = stats_at_call.successful_requests + 1
\* C11: execute_workflow called with a name that is not registered ends at
\* once with the not-found ValueError of the call itself: the step that
\* raises it starts no send and no batch and changes neither usage_stats nor
\* the registry, and after it no activation is left that could try again.
C11_NotFound ==
    /\ []((wf_call # NoWfCall /\ wf_call.name \notin DOMAIN workflows) =>
             /\ wf_ret = [status |-> "ValueError", depth |-> 0, value |-> <<>>]
             /\ wf_stack = <<>>
             /\ main_pc = "idle")
    /\ [][(wf_stack = <<>> /\ wf_call' # wf_call
              /\ wf_call'.name \notin DOMAIN workflows) =>
              /\ wf_ret'.status = "ValueError"
              /\ wf_stack' = <<>>
              /\ usage_stats' = usage_stats
              /\ workflows' = workflows
              /\ calls' = calls
              /\ main_pc' = "idle"
              /\ ret' = ret
              /\ <<prompts, submitted, results>>' = <<prompts, submitted, results>>
              /\ wf_runs' = wf_runs]_vars

\* C11 witness: after a workflow has run and sent, a call with a name that
\* is not registered has ended with the not-found error.
C11_Witness ==
    /\ wf_call.name = "sub"
    /\ "sub" \notin DOMAIN workflows
    /\ "main" \in DOMAIN workflows
    /\ wf_ret.status = "ValueError"
    /\ wf_ret.depth = 0
    /\ wf_runs = 1
    /\ usage_stats.total_requests >= 1
\* the content fields of a sequence of responses
Contents(res) == [k \in 1..Len(res) |-> res[k].content]

\* the innermost activation has just finished the step it was at
StepDone ==
    /\ wf_stack # <<>>
    /\ Len(wf_stack') = Len(wf_stack)
    /\ Top.pc <= Len(Steps)
    /\ wf_stack'[Len(wf_stack)].pc # Top.pc

\* C17: each step adds to the results of its activation exactly its own
\* contribution and the loop moves to the next step: a prompt step the one
\* response of its send, a batch step one entry per prompt in prompt order
\* (None for a failed one), a condition step nothing when its condition is
\* false and the whole result list of the sub-workflow when that returns, a
\* step of another type nothing; the value returned is the list so built.  A
\* failed send of a prompt step ends the whole call with the exception, and
\* nothing happens after it.
C17_Concatenation ==
    /\ [][StepDone =>
              LET f == Top
                  g == wf_stack'[Len(wf_stack)]
                  st == CurrentStep
              IN  /\ g.pc = f.pc + 1
                  /\ st.type = "prompt" =>
                         /\ g.results = Append(f.results, calls[0].result)
                         /\ calls[0].pc = "returned"
                         /\ ~calls[0].result.is_none
                         /\ <<calls[0].result.content>> = Format(st.content, f.context)
                  /\ st.type = "batch" =>
                         /\ Len(g.results) = Len(f.results) + Len(st.prompts)
                         /\ SubSeq(g.results, 1, Len(f.results)) = f.results
                         /\ \A k \in 1..Len(st.prompts) :
                                LET r == g.results[Len(f.results) + k]
                                IN  /\ r = FutureResult(k)
                                    /\ calls[k].prompt = st.prompts[k]
                                    /\ ~r.is_none => r.content = st.prompts[k]
                  /\ st.type = "condition" =>
                         /\ g.results = f.results
                         /\ ~Eval(st.condition, f.context, f.results)
                  /\ st.type \notin {"prompt", "batch", "condition"} =>
                         g.results = f.results]_vars
    /\ [][(Len(wf_stack) >= 2 /\ Len(wf_stack') = Len(wf_stack) - 1) =>
              LET parent == wf_stack[Len(wf_stack) - 1]
                  after == wf_stack'[Len(wf_stack) - 1]
              IN  /\ Top.pc = Len(Steps) + 1
                  /\ workflows[parent.name][parent.pc].type = "condition"
                  /\ workflows[parent.name][parent.pc].true_workflow = Top.name
                  /\ after.results = parent.results \o Top.results
                  /\ after.pc = parent.pc + 1]_vars
    /\ [][(wf_ret'.status = "returned" /\ wf_ret' # wf_ret) =>
              /\ Len(wf_stack) = 1
              /\ Top.pc = Len(Steps) + 1
              /\ wf_ret'.value = Top.results]_vars
    /\ [][(wf_stack # <<>> /\ wf_stack' # wf_stack /\ Top.at = "prompt_wait"
               /\ ret.op = "send" /\ ~ret.ok) =>
              /\ wf_stack' = <<>>
              /\ wf_ret'.status = "Exception"]_vars
    /\ [][wf_ret.status = "Exception" =>
              /\ wf_stack' = <<>>
              /\ usage_stats' = usage_stats
              /\ calls' = calls]_vars
    /\ []((wf_ret.status = "returned" /\ wf_call.name = "main") =>
              /\ workflows = RegistryChain =>
                     Contents(wf_ret.value) = <<"p", "q", "q", "q">>
              /\ workflows = RegistryBatch =>
                     /\ Len(wf_ret.value) = 2
                     /\ \A k \in 1..2 :
                            wf_ret.value[k].content \in {"", <<"p", "q">>[k]}
              /\ workflows = RegistryCycle =>
                     Contents(wf_ret.value) = <<"p">>)

\* C17 witness: the workflow main of the chain registry has returned the
\* response of its first prompt, the two of its sub-workflow (which skipped
\* its first condition and called leaf at its second) and, after a step of
\* an unknown type, the response of its last prompt.
C17_Witness ==
    /\ workflows = RegistryChain
    /\ wf_call = [name |-> "main", context |-> <<XContext>>]
    /\ wf_ret.status = "returned"
    /\ Len(wf_ret.value) = 4
    /\ Contents(wf_ret.value) = <<"p", "q", "q", "q">>
    /\ usage_stats.total_requests = 4
\* C19: the activation a condition step starts has an empty result list and
\* its parent's context, and is started only where the condition holds of
\* the parent's own context and results; an activation that is not the
\* innermost one keeps its context, and its results change only when the
\* activation right above it has run all its steps and returns, by that
\* activation's results being appended; so every waiting activation still
\* satisfies, on its own results, the condition that started its callee.
C19_SubWorkflowFrame ==
    /\ [][(wf_stack # <<>> /\ Len(wf_stack') = Len(wf_stack) + 1) =>
              LET sub == wf_stack'[Len(wf_stack) + 1]
              IN  /\ sub.results = <<>>
                  /\ sub.context = Top.context
                  /\ sub.pc = 1
                  /\ CurrentStep.type = "condition"
                  /\ sub.name = CurrentStep.true_workflow
                  /\ Eval(CurrentStep.condition, Top.context, Top.results)
                  /\ wf_stack'[Len(wf_stack)].results = Top.results]_vars
    /\ [][\A i \in 1..Len(wf_stack) :
              (i < Len(wf_stack) /\ i <= Len(wf_stack')) =>
                  /\ wf_stack'[i].context = wf_stack[i].context
                  /\ \/ wf_stack'[i] = wf_stack[i]
                     \/ /\ i = Len(wf_stack) - 1
                        /\ Len(wf_stack') = i
                        /\ Top.pc = Len(Steps) + 1
                        /\ wf_stack'[i].results =
                               wf_stack[i].results \o Top.results]_vars
    /\ [](\A i \in 1..Len(wf_stack) :
              i < Len(wf_stack) =>
                  LET f == wf_stack[i]
                      st == workflows[f.name][f.pc]
                  IN  /\ f.at = "call"
                      /\ st.type = "condition"
                      /\ Eval(st.condition, f.context, f.results)
                      /\ wf_stack[i + 1].name = st.true_workflow
                      /\ wf_stack[i + 1].context = f.context)
    /\ [](\A i \in 1..Len(wf_stack) :
              (workflows[wf_stack[i].name][1].type = "condition"
                  /\ workflows[wf_stack[i].name][1].condition = "len(results) > 0"
                  /\ wf_stack[i].pc = 1) => i = Len(wf_stack))

\* C19 witness: main holds the response of its first prompt and waits for
\* sub, which has passed its first condition, on the length of its own
\* results, as false and holds nothing yet.
C19_Witness ==
    /\ Len(wf_stack) = 2
    /\ wf_stack[1].name = "main"
    /\ Len(wf_stack[1].results) = 1
    /\ wf_stack[1].context = XContext
    /\ wf_stack[2].name = "sub"
    /\ workflows["sub"][1] = ConditionStep("len(results) > 0", "leaf")
    /\ wf_stack[2].pc = 2
    /\ wf_stack[2].results = <<>>
    /\ wf_stack[2].context = XContext
\* the registered workflows the condition steps of workflow n name
Refs(n) ==
    {workflows[n][k].true_workflow :
         k \in {j \in 1..Len(workflows[n]) : workflows[n][j].type = "condition"}}
        \cap DOMAIN workflows

\* the workflows reached from those of S in at most k further references
RECURSIVE ReachFrom(_, _)
ReachFrom(S, k) ==
    IF k = 0 THEN S
    ELSE ReachFrom(S \cup UNION {Refs(n) : n \in S}, k - 1)

\* no registered workflow reaches itself through true_workflow references
Acyclic ==
    \A n \in DOMAIN workflows :
        n \notin ReachFrom(Refs(n), Cardinality(DOMAIN workflows))

\* some workflow has an activation inside an activation of itself
Reentered ==
    \E i, j \in 1..Len(wf_stack) : i < j /\ wf_stack[i].name = wf_stack[j].name

\* C18: an execute_workflow that has begun comes to an end.  With a registry
\* whose true_workflow references form no cycle no workflow is entered
\* inside itself, the activations never outnumber the registered workflows
\* and the interpreter's recursion limit is never what ends the call.
\* Nothing detects a cycle: the call that exceeds the recursion limit is one
\* that enters a workflow already active, and once a workflow has been
\* entered inside itself the call never returns a result.
C18_Termination ==
    /\ (wf_stack # <<>>) ~> (wf_stack = <<>> /\ wf_ret.status # "none")
    /\ [](Acyclic =>
             /\ ~Reentered
             /\ Len(wf_stack) <= Cardinality(DOMAIN workflows)
             /\ wf_ret.status # "RecursionError")
    /\ [][(wf_ret'.status = "RecursionError" /\ wf_ret.status # "RecursionError") =>
              /\ wf_stack # <<>>
              /\ CurrentStep.type = "condition"
              /\ \E i \in 1..Len(wf_stack) :
                     wf_stack[i].name = CurrentStep.true_workflow]_vars
    /\ [](Reentered => [](wf_ret.status # "returned"))

\* C18 witness: main, which reaches itself through sub, has been entered
\* inside itself, has sent its prompt at both depths and the call has ended
\* with RecursionError.
C18_Witness ==
    /\ workflows = RegistryCycle
    /\ wf_call = [name |-> "main", context |-> <<XContext>>]
    /\ ~Acyclic
    /\ wf_ret.status = "RecursionError"
    /\ wf_stack = <<>>
    /\ usage_stats.total_requests = 2
====
